---- MODULE Spec2Model ----
(***************************************************************************)
(* dropbot::analog (src/src/analog.cpp): the ADC sampling and aggregation  *)
(* routines of the DropBot control board firmware.                         *)
(*                                                                         *)
(* Execution is single-threaded and run-to-completion.  Every routine is   *)
(* modelled as a call action, one action per analogRead() of its sampling  *)
(* loop, and a return action that carries out everything the code does     *)
(* after the loop.  The ADC is the environment: each conversion delivers   *)
(* an arbitrary 16-bit reading.                                            *)
(*                                                                         *)
(* A float is modelled as a record [kind, num, den]: kind "num" with the   *)
(* exact rational num/den (in the unit stated at its definition), "inf" or *)
(* "nan".  Integer results are [kind |-> "num", num |-> v, den |-> 1].     *)
(***************************************************************************)
EXTENDS Integers, Naturals, Sequences, FiniteSets

\* ------------------------------------------------------------ bounds ----

\* Largest sample count passed to read_max, read_rms and the benchmarks.
MaxN == 3

\* Largest n_samples passed to u16_percentile_diff.
MaxSamples == 3

\* Largest n_repeats passed to benchmmark_u16_percentile_diff.
MaxRepeats == 1

\* --------------------------------------------------- program constants --

\* Loop bound of measure_temperature and measure_aref (i < 255).
N_INTERNAL_SAMPLES == 255

\* Analog pins named by literals in the code.
PIN_TEMP == 38

PIN_AREF == 39

PIN_OUTPUT_CURRENT == 2

PIN_INPUT_CURRENT == 3

\* A1 of the Teensy 3.x pin map (pin 15); only its identity matters here.
PIN_A1 == 15

\* Widths of the C integer types.
UINT8_MOD == 256

UINT16_MOD == 65536

INT_MAX == 2147483647

\* High-voltage divider (ohms).
R8 == 2000000

R9 == 20000

\* -------------------------------------------------- environment sets ----

\* Readings the ADC delivers to the caller-sized loops.  0 and 65535 are the
\* ends of the 16-bit range, 3 and 4 the samples of the RMS scenario, 5000
\* a value whose square is exact in an int and above 2^24.
RawValues == {0, 3, 4, 5000, 65535}

\* Readings delivered to analog_reads_simple.
SampleValues == {4, 65535}

\* Levels of the internal channels (pins 38 and 39): the channel holds one
\* level for the 255 conversions of a call.
RefValues == {0, 65535}

\* Readings delivered to high_voltage().
HvValues == {0, 32768}

\* What an out-of-bounds element read may observe (any uint16_t in memory).
OobValues == {0, 7, 65535}

\* What converting a NaN to uint16_t may produce.
UBResults == {0, 65535}

\* Pins handed to the routines that take a pin argument.
Pins == {PIN_OUTPUT_CURRENT, PIN_AREF}

\* Pins handed to u16_percentile_diff and its benchmark.
SamplePins == {PIN_A1}

\* Percentiles handed to u16_percentile_diff; p / 100. is exact in binary
\* floating point for each of them.
Percentiles == {0, 25, 75, 100}

\* Elapsed microseconds the benchmarks may observe.
ElapsedMicros == {0, 10}

\* ------------------------------------------------------ pure helpers ----

RECURSIVE Pow2(_)
Pow2(k) == IF k = 0 THEN 1 ELSE 2 * Pow2(k - 1)

\* Narrowing conversion to uint16_t.
U16_nowrap(x) == x

U16(x) == x % UINT16_MOD

\* uint8_t increment.
U8Inc(x) == (x + 1) % UINT8_MOD

\* std::sort on a vector<uint16_t>: ascending insertion sort.
RECURSIVE Insert(_, _)
Insert(s, v) ==
  IF s = << >> THEN << v >>
  ELSE IF v <= Head(s) THEN << v >> \o s
  ELSE << Head(s) >> \o Insert(Tail(s), v)

RECURSIVE std_sort(_)
std_sort(s) == IF s = << >> THEN << >> ELSE Insert(std_sort(Tail(s)), Head(s))

\* (int)round((percentile / 100.) * n_samples) narrowed to uint16_t.  round()
\* rounds half away from zero; for percentile, n >= 0 that is
\* floor((2 p n + 100) / 200).
PercentileIndex(percentile, n_samples) ==
  U16((2 * percentile * n_samples + 100) \div 200)

\* value * value on two uint16_t operands is computed in (32-bit) int.
IntMulOverflows(v) == v # 0 /\ v > INT_MAX \div v

\* The product as the 32-bit multiply delivers it: v*v - 2^32 on overflow,
\* which is (v - 65536) * (v + 65536).
IntSquare(v) ==
  IF IntMulOverflows(v) THEN 0 - ((UINT16_MOD - v) * (UINT16_MOD + v)) ELSE v * v

\* Rounding of an integer to float (24-bit significand, ties to even).
RECURSIVE ShiftFor(_, _)
ShiftFor(a, k) == IF a \div Pow2(k) < Pow2(24) THEN k ELSE ShiftFor(a, k + 1)

RoundQuot(a, d) ==
  LET q == a \div d
      r == a % d
  IN IF 2 * r > d \/ (2 * r = d /\ q % 2 = 1) THEN q + 1 ELSE q

F32Abs(a) == LET k == ShiftFor(a, 0) IN RoundQuot(a, Pow2(k)) * Pow2(k)

F32(x) == IF x < 0 THEN 0 - F32Abs(0 - x) ELSE F32Abs(x)

\* floor of the float quotient a / n, for a float a > 0 holding an integer
\* and n > 0.
RECURSIVE ScaleUp(_, _, _)
ScaleUp(a, n, k) ==
  IF a * Pow2(k) >= Pow2(23) * n THEN k ELSE ScaleUp(a, n, k + 1)

RECURSIVE ScaleDown(_, _, _)
ScaleDown(a, n, k) ==
  IF a < Pow2(24 + k) * n THEN k ELSE ScaleDown(a, n, k + 1)

FloorF32Quot(a, n) ==
  IF a >= Pow2(24) * n
  THEN LET k == ScaleDown(a, n, 1) IN RoundQuot(a, n * Pow2(k)) * Pow2(k)
  ELSE LET k == ScaleUp(a, n, 0) IN RoundQuot(a * Pow2(k), n) \div Pow2(k)

\* Largest r with r * r <= x, 0 <= x <= INT_MAX (truncation of sqrt(x)).
RECURSIVE ISqrtIn(_, _, _)
ISqrtIn(x, lo, hi) ==
  IF lo = hi THEN lo
  ELSE LET mid == (lo + hi + 1) \div 2
       IN IF mid * mid <= x THEN ISqrtIn(x, mid, hi) ELSE ISqrtIn(x, lo, mid - 1)

ISqrt(x) == ISqrtIn(x, 0, 46340)

\* Float results.
Num(n, d) == [kind |-> "num", num |-> n, den |-> d]

Inf == [kind |-> "inf", num |-> 0, den |-> 1]

\* --------------------------------------------------------------- state --

VARIABLES
  pc,              \* routine whose sampling loop is running, "returned" when
                   \* a call has just returned, "idle" between calls
  caller,          \* routine that called the running aggregator, or "none"
  pin,             \* pin argument of the running routine
  n,               \* n / n_samples argument
  i,               \* loop counter
  low_percentile, high_percentile,
  low_i, high_i,   \* indices computed by u16_percentile_diff
  low_v, high_v,   \* elements read at result[low_i], result[high_i]
  analog_values,   \* the vector built by analog_reads_simple, then sorted
  adc_trace,       \* readings delivered to the running aggregator, in order
  sum,             \* uint32_t sum of measure_temperature / measure_aref
  max_value,       \* read_max
  sum2,            \* read_rms (float holding an integer)
  n_repeats, rep,  \* benchmmark_u16_percentile_diff
  adc_ref,         \* ADC reference mode set by analogReference()
  adc_last,        \* the most recent conversion: pin, reference mode, reader
  ref_level,       \* level of the internal channel during the running call
  n_reads,         \* conversions since the outermost call started
  high_voltage_,   \* dropbot::analog::high_voltage_
  hv_last,         \* value returned by the latest high_voltage() (kind "none": never called)
  ret,             \* the value returned by the latest completed call
  agg_ret,         \* the value returned by the latest aggregator call
  fault            \* undefined or exceptional operation met during the call

vars == << pc, caller, pin, n, i, low_percentile, high_percentile, low_i,
           high_i, low_v, high_v, analog_values, adc_trace, sum, max_value,
           sum2, n_repeats, rep, adc_ref, adc_last, ref_level, n_reads,
           high_voltage_, hv_last, ret, agg_ret, fault >>

NoRet == [fn |-> "none", kind |-> "none", num |-> 0, den |-> 1]

NoAgg == [fn |-> "none", val |-> 0]

Return(fn, value) == [fn |-> fn, kind |-> value.kind, num |-> value.num, den |-> value.den]

\* float high_voltage_ = 0; the ADC reference starts in DEFAULT mode.
Init ==
  /\ pc = "idle"
  /\ caller = "none"
  /\ pin = 0
  /\ n = 0
  /\ i = 0
  /\ low_percentile = 0
  /\ high_percentile = 0
  /\ low_i = 0
  /\ high_i = 0
  /\ low_v = 0
  /\ high_v = 0
  /\ analog_values = << >>
  /\ adc_trace = << >>
  /\ sum = 0
  /\ max_value = 0
  /\ sum2 = 0
  /\ n_repeats = 0
  /\ rep = 0
  /\ adc_ref = "DEFAULT"
  /\ adc_last = [pin |-> 0, ref |-> "DEFAULT", by |-> "none"]
  /\ ref_level = 0
  /\ n_reads = 0
  /\ high_voltage_ = Num(0, 1)
  /\ hv_last = [kind |-> "none", num |-> 0, den |-> 1]
  /\ ret = NoRet
  /\ agg_ret = NoAgg
  /\ fault = "none"

\* ------------------------------------------------------------ calls -----

\* Entry of a routine called from the idle caller: its arguments and the
\* initial values of its locals.
Locals(routine, by, p, count, lo, hi, repeats) ==
  /\ pc = "idle"
  /\ pc' = routine
  /\ caller' = by
  /\ pin' = p
  /\ n' = count
  /\ i' = 0
  /\ low_percentile' = lo
  /\ high_percentile' = hi
  /\ low_i' = 0
  /\ high_i' = 0
  /\ low_v' = 0
  /\ high_v' = 0
  /\ adc_trace' = << >>
  /\ sum' = 0
  /\ max_value' = 0
  /\ sum2' = 0
  /\ n_repeats' = repeats
  /\ rep' = 0

Enter(routine, by, p, count, lo, hi, repeats) ==
  /\ Locals(routine, by, p, count, lo, hi, repeats)
  /\ n_reads' = 0
  /\ ret' = NoRet
  /\ agg_ret' = NoAgg
  /\ fault' = "none"

\* analogRead(p) issued by `reader`: one conversion under the current
\* reference mode.
analogRead(p, reader) ==
  /\ adc_last' = [pin |-> p, ref |-> adc_ref, by |-> reader]
  /\ n_reads' = n_reads + 1

\* -------------------------------------------------------- high_voltage --

\* hv_fb = raw / 2^16 * 3.3; hv_peak_to_peak = hv_fb * R8 / R9; the result is
\* 0.5 * hv_peak_to_peak.  Volts, as an exact rational.
HighVoltageOf(raw) ==
  LET hv_fb == Num(raw * 33, UINT16_MOD * 10)
      hv_peak_to_peak == Num(hv_fb.num * (R8 \div R9), hv_fb.den)
  IN Num(hv_peak_to_peak.num, 2 * hv_peak_to_peak.den)

\* The value high_voltage() hands back: it returns high_voltage_ after the
\* assignment.
HighVoltageReturned_uncached(cached, raw) == Num(raw * 33 * (R8 \div R9), UINT16_MOD * 10)

HighVoltageReturned(cached, raw) == cached

HighVoltageStep(raw) ==
  /\ Locals("returned", "none", PIN_A1, 0, 0, 0, 0)
  /\ analog_values' = << >>
  /\ n_reads' = 1
  /\ agg_ret' = NoAgg
  /\ fault' = "none"
  /\ adc_last' = [pin |-> PIN_A1, ref |-> adc_ref, by |-> "high_voltage"]
  /\ high_voltage_' = HighVoltageOf(raw)
  /\ ret' = Return("high_voltage", HighVoltageReturned(high_voltage_', raw))
  /\ hv_last' = [kind |-> ret'.kind, num |-> ret'.num, den |-> ret'.den]
  /\ UNCHANGED << adc_ref, ref_level >>

high_voltage == \E raw \in HvValues : HighVoltageStep(raw)

\* -------------------------------------------------- measure_temperature --

measure_temperature_call ==
  /\ Enter("measure_temperature", "none", PIN_TEMP, N_INTERNAL_SAMPLES, 0, 0, 0)
  /\ analog_values' = << >>
  /\ ref_level' \in RefValues
  /\ adc_ref' = "INTERNAL"
  /\ UNCHANGED << adc_last, high_voltage_, hv_last >>

\* One iteration of a 255-sample summing loop (uint8_t i, uint32_t sum; the
\* sum is at most 255 * 65535 and cannot wrap).
SumLoopRead(routine, p) ==
  /\ pc = routine
  /\ i < N_INTERNAL_SAMPLES
  /\ sum' = sum + ref_level
  /\ i' = U8Inc(i)
  /\ analogRead(p, routine)
  /\ UNCHANGED << ref_level, pc, caller, pin, n, low_percentile, high_percentile, low_i,
                  high_i, low_v, high_v, analog_values, adc_trace, max_value,
                  sum2, n_repeats, rep, adc_ref, high_voltage_, hv_last, ret,
                  agg_ret, fault >>

measure_temperature_Read == SumLoopRead("measure_temperature", PIN_TEMP)

\* voltage = sum / 255.0 / 65535.0 * 1.2, kept in millivolts; the result is
\* 25.0 + 583.0904 * (0.719 - voltage), in units of 1e-4 degrees Celsius.
TemperatureOf(s) ==
  LET mv == ((s \div N_INTERNAL_SAMPLES) * 1200) \div (UINT16_MOD - 1)
  IN Num(250000 + 5830 * (719 - mv) + (904 * (719 - mv)) \div 1000, 10000)

TemperatureReturn(mode) ==
  /\ pc = "measure_temperature"
  /\ ~(i < N_INTERNAL_SAMPLES)
  /\ adc_ref' = mode
  /\ ret' = Return("measure_temperature", TemperatureOf(sum))
  /\ pc' = "returned"
  /\ UNCHANGED << ref_level, caller, pin, n, i, low_percentile, high_percentile, low_i,
                  high_i, low_v, high_v, analog_values, adc_trace, sum,
                  max_value, sum2, n_repeats, rep, adc_last, n_reads,
                  high_voltage_, hv_last, agg_ret, fault >>

measure_temperature_Return_leak == TemperatureReturn(adc_ref)

measure_temperature_Return == TemperatureReturn("DEFAULT")

\* --------------------------------------------------------- measure_aref --

\* The reference mode measure_aref samples under: it calls no
\* analogReference(), so the mode is the one it finds.
ArefModeSwitched(mode) == "INTERNAL"

ArefMode(mode) == mode

measure_aref_call ==
  /\ Enter("measure_aref", "none", PIN_AREF, N_INTERNAL_SAMPLES, 0, 0, 0)
  /\ analog_values' = << >>
  /\ ref_level' \in RefValues
  /\ adc_ref' = ArefMode(adc_ref)
  /\ UNCHANGED << adc_last, high_voltage_, hv_last >>

measure_aref_Read == SumLoopRead("measure_aref", PIN_AREF)

\* 1.195 * 65535.0 / (float)sum * 255.0, in units of 255 mV; the division is
\* by zero when every reading was 0.
ArefOf(s) == IF s = 0 THEN Inf ELSE Num(1195 * (UINT16_MOD - 1), s)

measure_aref_Return ==
  /\ pc = "measure_aref"
  /\ ~(i < N_INTERNAL_SAMPLES)
  /\ ret' = Return("measure_aref", ArefOf(sum))
  /\ fault' = IF sum = 0 THEN "div_by_zero" ELSE fault
  /\ pc' = "returned"
  /\ UNCHANGED << ref_level, caller, pin, n, i, low_percentile, high_percentile, low_i,
                  high_i, low_v, high_v, analog_values, adc_trace, sum,
                  max_value, sum2, n_repeats, rep, adc_ref, adc_last, n_reads,
                  high_voltage_, hv_last, agg_ret >>

\* ------------------------------------------------------------- read_max --

read_max_call ==
  \E p \in Pins, count \in 0..MaxN :
    /\ Enter("read_max", "none", p, count, 0, 0, 0)
    /\ analog_values' = << >>
    /\ UNCHANGED << adc_ref, adc_last, ref_level, high_voltage_, hv_last >>

measure_output_current_call ==
  \E count \in 0..MaxN :
    /\ Enter("read_max", "measure_output_current", PIN_OUTPUT_CURRENT, count, 0, 0, 0)
    /\ analog_values' = << >>
    /\ UNCHANGED << adc_ref, adc_last, ref_level, high_voltage_, hv_last >>

measure_input_current_call ==
  \E count \in 0..MaxN :
    /\ Enter("read_max", "measure_input_current", PIN_INPUT_CURRENT, count, 0, 0, 0)
    /\ analog_values' = << >>
    /\ UNCHANGED << adc_ref, adc_last, ref_level, high_voltage_, hv_last >>

\* if (value > max_value) { max_value = value; }
MaxUpdate_min(value, current) == IF value < current THEN value ELSE current

MaxUpdate(value, current) == IF value > current THEN value ELSE current

read_max_Read ==
  /\ pc = "read_max"
  /\ i < n
  /\ \E value \in RawValues :
       /\ max_value' = MaxUpdate(value, max_value)
       /\ adc_trace' = Append(adc_trace, value)
  /\ i' = i + 1
  /\ analogRead(pin, "read_max")
  /\ UNCHANGED << ref_level, pc, caller, pin, n, low_percentile, high_percentile, low_i,
                  high_i, low_v, high_v, analog_values, sum, sum2, n_repeats,
                  rep, adc_ref, high_voltage_, hv_last, ret, agg_ret, fault >>

\* voltage = aggregate / 2^16 * 3.3; current = voltage / (51e3 / 5.1e3 * 1).
OutputCurrentOf(aggregate) == Num(aggregate * 33, UINT16_MOD * 10 * (51000 \div 5100))

\* voltage = aggregate / 2^16 * 3.3; current = voltage / 0.03.
InputCurrentOf(aggregate) == Num(aggregate * 33 * 100, UINT16_MOD * 10 * 3)

read_max_Return ==
  /\ pc = "read_max"
  /\ ~(i < n)
  /\ agg_ret' = [fn |-> "read_max", val |-> max_value]
  /\ ret' = CASE caller = "measure_output_current" ->
                   Return(caller, OutputCurrentOf(max_value))
              [] caller = "measure_input_current" ->
                   Return(caller, InputCurrentOf(max_value))
              [] OTHER -> Return("read_max", Num(max_value, 1))
  /\ pc' = "returned"
  /\ caller' = "none"
  /\ UNCHANGED << ref_level, pin, n, i, low_percentile, high_percentile, low_i, high_i,
                  low_v, high_v, analog_values, adc_trace, sum, max_value,
                  sum2, n_repeats, rep, adc_ref, adc_last, n_reads,
                  high_voltage_, hv_last, fault >>

\* ------------------------------------------------------------- read_rms --

read_rms_call ==
  \E p \in Pins, count \in 0..MaxN :
    /\ Enter("read_rms", "none", p, count, 0, 0, 0)
    /\ analog_values' = << >>
    /\ UNCHANGED << adc_ref, adc_last, ref_level, high_voltage_, hv_last >>

measure_output_current_rms_call ==
  \E count \in 0..MaxN :
    /\ Enter("read_rms", "measure_output_current_rms", PIN_OUTPUT_CURRENT, count, 0, 0, 0)
    /\ analog_values' = << >>
    /\ UNCHANGED << adc_ref, adc_last, ref_level, high_voltage_, hv_last >>

\* sum2 += value * value: the product is an int (signed overflow is
\* undefined; the wrapped product is recorded together with the fault), it
\* is converted to float and added in float.
read_rms_Read ==
  /\ pc = "read_rms"
  /\ i < n
  /\ \E value \in RawValues :
       /\ sum2' = F32(sum2 + F32(IntSquare(value)))
       /\ fault' = IF IntMulOverflows(value) THEN "int_overflow" ELSE fault
       /\ adc_trace' = Append(adc_trace, value)
  /\ i' = i + 1
  /\ analogRead(pin, "read_rms")
  /\ UNCHANGED << ref_level, pc, caller, pin, n, low_percentile, high_percentile, low_i,
                  high_i, low_v, high_v, analog_values, sum, max_value,
                  n_repeats, rep, adc_ref, high_voltage_, hv_last, ret,
                  agg_ret >>

\* return sqrt(sum2 / n), converted to uint16_t (truncation).  0 / 0 and the
\* square root of a negative sum are NaN, whose conversion is undefined; after
\* a signed overflow the result is the one of the wrapped sum or arbitrary.
RmsResults(s2, count, flt) ==
  IF count = 0 THEN UBResults
  ELSE LET computed == IF s2 < 0 THEN UBResults
                       ELSE IF s2 = 0 THEN {0}
                       ELSE {ISqrt(FloorF32Quot(s2, count))}
       IN IF flt = "int_overflow" THEN computed \cup UBResults ELSE computed

read_rms_Return ==
  /\ pc = "read_rms"
  /\ ~(i < n)
  /\ \E rms \in RmsResults(sum2, n, fault) :
       /\ agg_ret' = [fn |-> "read_rms", val |-> rms]
       /\ ret' = IF caller = "measure_output_current_rms"
                 THEN Return(caller, OutputCurrentOf(rms))
                 ELSE Return("read_rms", Num(rms, 1))
  /\ fault' = IF n = 0 THEN "div_by_zero" ELSE fault
  /\ pc' = "returned"
  /\ caller' = "none"
  /\ UNCHANGED << ref_level, pin, n, i, low_percentile, high_percentile, low_i, high_i,
                  low_v, high_v, analog_values, adc_trace, sum, max_value,
                  sum2, n_repeats, rep, adc_ref, adc_last, n_reads,
                  high_voltage_, hv_last >>

\* -------------------------------------------------- u16_percentile_diff --

u16_percentile_diff_call ==
  \E p \in SamplePins, count \in 0..MaxSamples, lo \in Percentiles, hi \in Percentiles :
    /\ Enter("analog_reads_simple", "none", p, count, lo, hi, 0)
    /\ analog_values' = << >>
    /\ UNCHANGED << adc_ref, adc_last, ref_level, high_voltage_, hv_last >>

\* std::generate over the n_samples elements of analog_values.
analog_reads_simple_Read ==
  /\ pc = "analog_reads_simple"
  /\ i < n
  /\ \E value \in SampleValues :
       /\ analog_values' = Append(analog_values, value)
       /\ adc_trace' = Append(adc_trace, value)
  /\ i' = i + 1
  /\ analogRead(pin, "u16_percentile_diff")
  /\ UNCHANGED << ref_level, pc, caller, pin, n, low_percentile, high_percentile, low_i,
                  high_i, low_v, high_v, sum, max_value, sum2, n_repeats, rep,
                  adc_ref, high_voltage_, hv_last, ret, agg_ret, fault >>

\* std::sort(result), then the two indices.
u16_percentile_diff_Sort ==
  /\ pc = "analog_reads_simple"
  /\ ~(i < n)
  /\ analog_values' = std_sort(analog_values)
  /\ high_i' = PercentileIndex(high_percentile, n)
  /\ low_i' = PercentileIndex(low_percentile, n)
  /\ pc' = "u16_percentile_diff"
  /\ UNCHANGED << ref_level, caller, pin, n, i, low_percentile, high_percentile, low_v,
                  high_v, adc_trace, sum, max_value, sum2, n_repeats, rep,
                  adc_ref, adc_last, n_reads, high_voltage_, hv_last, ret,
                  agg_ret, fault >>

\* result[k]: operator[] checks nothing; past the end it observes whatever
\* lies in memory.
ElementAt(v, k) == IF k < Len(v) THEN {v[k + 1]} ELSE OobValues

\* The micro-benchmarks return (end - start) * 1e-6, in seconds.
ElapsedOf(micros) == Num(micros, 1000000)

\* return result[high_i] - result[low_i], narrowed to uint16_t.  Under
\* benchmmark_u16_percentile_diff the call is repeated n_repeats times.
u16_percentile_diff_Return ==
  /\ pc = "u16_percentile_diff"
  /\ \E hv \in ElementAt(analog_values, high_i), lv \in ElementAt(analog_values, low_i) :
       /\ high_i = low_i => hv = lv
       /\ high_v' = hv
       /\ low_v' = lv
       /\ agg_ret' = [fn |-> "u16_percentile_diff", val |-> U16(hv - lv)]
  /\ fault' = IF high_i < Len(analog_values) /\ low_i < Len(analog_values)
              THEN fault ELSE "oob_read"
  /\ IF caller = "none"
     THEN /\ ret' = Return("u16_percentile_diff", Num(agg_ret'.val, 1))
          /\ pc' = "returned"
          /\ UNCHANGED << caller, i, analog_values, adc_trace, rep >>
     ELSE IF rep + 1 < n_repeats
     THEN /\ rep' = rep + 1
          /\ pc' = "analog_reads_simple"
          /\ i' = 0
          /\ analog_values' = << >>
          /\ adc_trace' = << >>
          /\ UNCHANGED << caller, ret >>
     ELSE /\ rep' = rep + 1
          /\ \E micros \in ElapsedMicros :
               ret' = Return("benchmmark_u16_percentile_diff", ElapsedOf(micros))
          /\ pc' = "returned"
          /\ caller' = "none"
          /\ UNCHANGED << i, analog_values, adc_trace >>
  /\ UNCHANGED << ref_level, pin, n, low_percentile, high_percentile, low_i, high_i, sum,
                  max_value, sum2, n_repeats, adc_ref, adc_last, n_reads,
                  high_voltage_, hv_last >>

\* ----------------------------------------------------------- benchmarks --

\* for (i = 0; i < n_repeats; i++) u16_percentile_diff(...): with
\* n_repeats == 0 the routine returns without sampling.
benchmmark_u16_percentile_diff_call ==
  \E p \in SamplePins, count \in 0..MaxSamples, lo \in Percentiles, hi \in Percentiles,
     repeats \in 0..MaxRepeats :
    /\ analog_values' = << >>
    /\ UNCHANGED << adc_ref, adc_last, ref_level, high_voltage_, hv_last >>
    /\ IF repeats = 0
       THEN /\ Locals("returned", "none", p, count, lo, hi, repeats)
            /\ n_reads' = 0
            /\ agg_ret' = NoAgg
            /\ fault' = "none"
            /\ \E micros \in ElapsedMicros :
                 ret' = Return("benchmmark_u16_percentile_diff", ElapsedOf(micros))
       ELSE Enter("analog_reads_simple", "benchmmark_u16_percentile_diff",
                  p, count, lo, hi, repeats)

\* std::vector<uint16_t> values(1)
benchmark_analog_read_call ==
  \E p \in Pins, count \in 0..MaxN :
    /\ Enter("benchmark_analog_read", "none", p, count, 0, 0, 0)
    /\ analog_values' = << 0 >>
    /\ UNCHANGED << adc_ref, adc_last, ref_level, high_voltage_, hv_last >>

benchmark_analog_read_Read ==
  /\ pc = "benchmark_analog_read"
  /\ i < n
  /\ \E value \in RawValues : analog_values' = << value >>
  /\ i' = i + 1
  /\ analogRead(pin, "benchmark_analog_read")
  /\ UNCHANGED << ref_level, pc, caller, pin, n, low_percentile, high_percentile, low_i,
                  high_i, low_v, high_v, adc_trace, sum, max_value, sum2,
                  n_repeats, rep, adc_ref, high_voltage_, hv_last, ret,
                  agg_ret, fault >>

benchmark_analog_read_Return ==
  /\ pc = "benchmark_analog_read"
  /\ ~(i < n)
  /\ \E micros \in ElapsedMicros :
       ret' = Return("benchmark_analog_read", ElapsedOf(micros))
  /\ pc' = "returned"
  /\ UNCHANGED << ref_level, caller, pin, n, i, low_percentile, high_percentile, low_i,
                  high_i, low_v, high_v, analog_values, adc_trace, sum,
                  max_value, sum2, n_repeats, rep, adc_ref, adc_last, n_reads,
                  high_voltage_, hv_last, agg_ret, fault >>

\* ---------------------------------------------------------------- caller --

\* The caller takes the returned value and the call's frame is gone: only
\* high_voltage_ and the state of the ADC outlive the call.
caller_resumes ==
  /\ pc = "returned"
  /\ pc' = "idle"
  /\ caller' = "none"
  /\ pin' = 0
  /\ n' = 0
  /\ i' = 0
  /\ low_percentile' = 0
  /\ high_percentile' = 0
  /\ low_i' = 0
  /\ high_i' = 0
  /\ low_v' = 0
  /\ high_v' = 0
  /\ analog_values' = << >>
  /\ adc_trace' = << >>
  /\ sum' = 0
  /\ max_value' = 0
  /\ sum2' = 0
  /\ n_repeats' = 0
  /\ rep' = 0
  /\ n_reads' = 0
  /\ ret' = NoRet
  /\ agg_ret' = NoAgg
  /\ fault' = "none"
  /\ ref_level' = 0
  /\ UNCHANGED << adc_ref, adc_last, high_voltage_, hv_last >>

\* -------------------------------------------------------- specification --

Next ==
  \/ high_voltage
  \/ measure_temperature_call
  \/ measure_temperature_Read
  \/ measure_temperature_Return
  \/ measure_aref_call
  \/ measure_aref_Read
  \/ measure_aref_Return
  \/ read_max_call
  \/ measure_output_current_call
  \/ measure_input_current_call
  \/ read_max_Read
  \/ read_max_Return
  \/ read_rms_call
  \/ measure_output_current_rms_call
  \/ read_rms_Read
  \/ read_rms_Return
  \/ u16_percentile_diff_call
  \/ analog_reads_simple_Read
  \/ u16_percentile_diff_Sort
  \/ u16_percentile_diff_Return
  \/ benchmmark_u16_percentile_diff_call
  \/ benchmark_analog_read_call
  \/ benchmark_analog_read_Read
  \/ benchmark_analog_read_Return
  \/ caller_resumes

Spec == Init /\ [][Next]_vars

\* The processor runs a started read_max to completion.
FairSpec == Spec /\ WF_vars(read_max_Read) /\ WF_vars(read_max_Return)

\* ---------------------------------------------------------- properties --

Range(s) == {s[k] : k \in 1..Len(s)}

Count(s, v) == Cardinality({k \in 1..Len(s) : s[k] = v})

\* S in ascending order, stated without reference to std_sort.
Ascending(s) ==
  CHOOSE t \in [1..Len(s) -> Range(s)] :
    /\ \A k \in 1..(Len(s) - 1) : t[k] <= t[k + 1]
    /\ \A v \in Range(s) : Count(t, v) = Count(s, v)

\* The largest element found by a scan of the whole sequence (0 when empty).
LinearScanMax(s) ==
  IF s = << >> THEN 0 ELSE CHOOSE m \in Range(s) : \A v \in Range(s) : v <= m

RECURSIVE SumSquares(_)
SumSquares(s) == IF s = << >> THEN 0 ELSE Head(s) * Head(s) + SumSquares(Tail(s))

OtherReaders ==
  {"high_voltage", "read_max", "read_rms", "u16_percentile_diff",
   "measure_aref", "benchmark_analog_read"}

PhysicalRoutines ==
  {"high_voltage", "measure_temperature", "measure_aref",
   "measure_output_current", "measure_output_current_rms",
   "measure_input_current"}

Returned(fn) == pc = "returned" /\ ret.fn = fn

\* C1: measure_temperature has the reference mode INTERNAL before its first
\* conversion and during all 255 of them, and has restored DEFAULT when it
\* returns; the mode is DEFAULT whenever any other routine converts.
C1_TemperatureReferenceScoped ==
  /\ pc = "measure_temperature" => adc_ref = "INTERNAL"
  /\ adc_last.by = "measure_temperature" =>
       adc_last.ref = "INTERNAL" /\ adc_last.pin = PIN_TEMP
  /\ pc # "measure_temperature" => adc_ref = "DEFAULT"
  /\ adc_last.by \in OtherReaders => adc_last.ref = "DEFAULT"
  /\ Returned("measure_temperature") =>
       n_reads = N_INTERNAL_SAMPLES /\ adc_last.by = "measure_temperature"

\* C1 witness: measure_temperature has returned after 255 conversions under
\* INTERNAL and the mode is DEFAULT again.
C1_Witness ==
  /\ Returned("measure_temperature")
  /\ n_reads = N_INTERNAL_SAMPLES
  /\ adc_last.ref = "INTERNAL"
  /\ adc_ref = "DEFAULT"

\* C2 (as claimed): every conversion of measure_aref is made under INTERNAL
\* and the mode is DEFAULT when it returns.
C2_ArefSamplesUnderInternal ==
  /\ adc_last.by = "measure_aref" => adc_last.ref = "INTERNAL"
  /\ Returned("measure_aref") => adc_ref = "DEFAULT"

\* C2 (amended): measure_aref never changes the reference mode: each of its
\* 255 conversions of pin 39 is made under DEFAULT, and the mode is DEFAULT
\* when it returns.
C2_ArefSamplesUnderDefault ==
  /\ pc = "measure_aref" => adc_ref = "DEFAULT"
  /\ adc_last.by = "measure_aref" =>
       adc_last.ref = "DEFAULT" /\ adc_last.pin = PIN_AREF
  /\ Returned("measure_aref") =>
       /\ adc_ref = "DEFAULT"
       /\ n_reads = N_INTERNAL_SAMPLES
       /\ adc_last.by = "measure_aref"

\* C2 witness: measure_aref has returned after its 255 conversions.
C2_Witness ==
  /\ Returned("measure_aref")
  /\ n_reads = N_INTERNAL_SAMPLES
  /\ adc_last.by = "measure_aref"
  /\ adc_last.ref = "DEFAULT"

\* C3 (as claimed): for n >= 1 and 0 <= low <= high <= 100 both indices lie
\* in [0, n-1] when the sorted sequence is accessed, and no element past the
\* end is read.
C3_IndicesClamped ==
  /\ (pc = "u16_percentile_diff" /\ n >= 1 /\ low_percentile <= high_percentile) =>
       high_i <= n - 1 /\ low_i <= n - 1
  /\ (Returned("u16_percentile_diff") /\ n >= 1 /\ low_percentile <= high_percentile) =>
       fault # "oob_read"

\* C4 (as claimed): read_rms with n == 0, called directly or through
\* measure_output_current_rms, fails with InvalidArgument and divides nothing
\* by zero.
C4_ZeroCountRejected ==
  (pc = "returned" /\ agg_ret.fn = "read_rms" /\ n = 0) =>
    ret.kind = "InvalidArgument" /\ fault = "none"

\* The cache holds 0 before the first high_voltage() and the latest returned
\* value afterwards.
C5_CacheValue ==
  /\ hv_last.kind = "none" => high_voltage_ = Num(0, 1)
  /\ hv_last.kind # "none" =>
       high_voltage_ = [kind |-> hv_last.kind, num |-> hv_last.num, den |-> hv_last.den]
  /\ Returned("high_voltage") => ret = Return("high_voltage", high_voltage_)

\* A step that changes the cache is a call of high_voltage().
C5_CacheWrittenOnlyByHighVoltage ==
  high_voltage_' # high_voltage_ =>
    pc = "idle" /\ pc' = "returned" /\ ret'.fn = "high_voltage"

\* C5: high_voltage_ is 0 until the first high_voltage(), afterwards it is
\* the value the latest high_voltage() returned; only high_voltage() writes
\* it, every other routine leaves it unchanged.
C5_CachedHighVoltage == [] C5_CacheValue /\ [][C5_CacheWrittenOnlyByHighVoltage]_vars

\* C5 witness: another routine has returned while the cache holds the
\* non-zero value of an earlier high_voltage().
C5_Witness ==
  /\ Returned("measure_temperature")
  /\ hv_last.kind = "num"
  /\ high_voltage_.num # 0

\* C6 (as claimed): with percentiles (25, 75) and n >= 1 samples the result is
\* sorted(S)[round(0.75 n)] - sorted(S)[round(0.25 n)].
C6_InterQuartileOfSorted ==
  ( /\ Returned("u16_percentile_diff")
    /\ low_percentile = 25
    /\ high_percentile = 75
    /\ n >= 1 ) =>
    LET hi == (3 * n + 2) \div 4
        lo == (n + 2) \div 4
    IN /\ hi < Len(adc_trace)
       /\ lo < Len(adc_trace)
       /\ ret.num = Ascending(adc_trace)[hi + 1] - Ascending(adc_trace)[lo + 1]

\* C7 (as claimed): for n >= 1 no square overflows and read_rms returns
\* exactly sqrt(sum of the squares / n), that is result^2 * n equals the sum
\* of the squares.
C7_ExactRms ==
  (pc = "returned" /\ agg_ret.fn = "read_rms" /\ n >= 1) =>
    /\ fault # "int_overflow"
    /\ agg_ret.val * agg_ret.val * n = SumSquares(adc_trace)

\* read_max in its loop and at its return: i conversions made so far, n in
\* all, and max_value the largest reading so far.
C8_ReadMaxState ==
  /\ pc = "read_max" =>
       /\ i <= n
       /\ Len(adc_trace) = i
       /\ n_reads = i
       /\ max_value = LinearScanMax(adc_trace)
  /\ (pc = "returned" /\ agg_ret.fn = "read_max") =>
       /\ Len(adc_trace) = n
       /\ n_reads = n
       /\ agg_ret.val = LinearScanMax(adc_trace)
       /\ n >= 1 => adc_last.by = "read_max" /\ adc_last.pin = pin
       /\ ret.fn = "read_max" => ret = Return("read_max", Num(agg_ret.val, 1))

\* C8: read_max makes exactly n conversions of its pin, one per iteration of
\* a single pass, returns the largest reading (0 when n == 0), and a started
\* read_max returns.
C8_ReadMax == [] C8_ReadMaxState /\ ((pc = "read_max") ~> (pc = "returned"))

\* C8 witness: read_max has returned a maximum that is not its last reading.
C8_Witness ==
  /\ pc = "returned"
  /\ agg_ret.fn = "read_max"
  /\ n >= 2
  /\ adc_trace[1] > adc_trace[2]
  /\ agg_ret.val = adc_trace[1]

\* C9 (as claimed): every physical-value routine returns a number and no
\* execution of one divides by zero, whatever the readings.
C9_AlwaysANumber ==
  (pc = "returned" /\ ret.fn \in PhysicalRoutines) =>
    ret.kind = "num" /\ fault # "div_by_zero"

\* C10 (as claimed): the returned value is the true difference
\* sorted[high_i] - sorted[low_i], sign included (stated for the calls whose
\* two indices are inside the sequence).
C10_TrueDifference ==
  ( /\ pc = "returned"
    /\ agg_ret.fn = "u16_percentile_diff"
    /\ high_i < Len(analog_values)
    /\ low_i < Len(analog_values) ) =>
    agg_ret.val = analog_values[high_i + 1] - analog_values[low_i + 1]

\* C10 (amended): the returned value is the difference of the two elements
\* read, reduced modulo 2^16 into the uint16_t result: the true difference
\* when it is not negative, the difference plus 65536 when it is.
C10_DifferenceModulo ==
  /\ agg_ret.fn = "u16_percentile_diff" =>
       /\ agg_ret.val \in 0..(UINT16_MOD - 1)
       /\ high_v >= low_v => agg_ret.val = high_v - low_v
       /\ high_v < low_v => agg_ret.val = high_v - low_v + UINT16_MOD
  /\ (pc = "returned" /\ agg_ret.fn = "u16_percentile_diff") =>
       /\ high_i < Len(analog_values) => high_v = analog_values[high_i + 1]
       /\ low_i < Len(analog_values) => low_v = analog_values[low_i + 1]
       /\ ret.fn = "u16_percentile_diff" =>
            ret = Return("u16_percentile_diff", Num(agg_ret.val, 1))

\* C10 witness: both indices inside the sequence, the element at high_i
\* smaller than the one at low_i, and the result wrapped.
C10_Witness ==
  /\ pc = "returned"
  /\ agg_ret.fn = "u16_percentile_diff"
  /\ high_i < Len(analog_values)
  /\ low_i < Len(analog_values)
  /\ high_v < low_v
  /\ agg_ret.val = high_v - low_v + UINT16_MOD

====
